---- MODULE Spec2Model ----
(***************************************************************************)
(* A model of my_jira_cli: the persisted DbState behind the Database trait  *)
(* and the operations of JiraDatabase that read it, change a private copy  *)
(* and write it back (src/src/db.rs); the two storage backends; the        *)
(* driving loop (src/src/main.rs); and the pure helpers of the UI.         *)
(***************************************************************************)
EXTENDS Integers, Sequences, FiniteSets, TLC

VARIABLES
  db,        \* the backend's stored DbState (MockDB::last_written_state)
  pre,       \* history: the stored DbState when the call in `last` began
  last,      \* the JiraDatabase call whose Result the caller has not taken yet
  returned,  \* history: the ids returned by successful creates, in order
  removed,   \* history: the ids taken out of a map by a successful delete
  owner,     \* history: for each stored story, the epic_id it was created with
  file,      \* JsonFileDb: what the database file holds
  heap,      \* MockDB: the DbState objects of the caller and of the backend
  cell,      \* MockDB: the object last_written_state refers to
  got,       \* the Result of the last Database::read
  sent,      \* history: the DbState last passed to each backend's write
  stack,     \* Navigator: the pages, the current one last
  pc,        \* main: where the driving loop stands
  action,    \* main: what handle_input returned
  told,      \* history: what the current loop iteration has done so far
  arg,       \* the input of a pure helper
  res        \* the value the helper returned for it

repoVars == <<db, pre, last, returned, removed, owner>>
storeVars == <<file, heap, cell, got, sent>>
navVars == <<stack, pc, action, told>>
fnVars == <<arg, res>>
vars == <<repoVars, storeVars, navVars, fnVars>>

(***************************************************************************)
(* Bounds of the model.                                                    *)
(***************************************************************************)
\* Spec: creates are explored while the id they allocate is at most MaxId
MaxId == 4

\* SpecNames: the same with several texts and ids up to MaxIdNames
MaxIdNames == 3

\* the (name, description) pairs typed at the create prompts
Texts == { <<"n1", "d1">> }
TwoTexts == { <<"n1", "d1">>, <<"n2", "d2">> }

(***************************************************************************)
(* Domain model (src/src/models.rs).                                       *)
(***************************************************************************)
Status == {"Open", "InProgress", "Resolved", "Closed"}

\* the story list of a freshly constructed epic
NewEpicStories == << >>

EpicNew(name, description) ==
  [name |-> name, description |-> description, status |-> "Open",
   stories |-> NewEpicStories]

StoryNew(name, description) ==
  [name |-> name, description |-> description, status |-> "Open"]

(***************************************************************************)
(* HashMap and Vec operations used by db.rs.                               *)
(***************************************************************************)
EmptyMap == [k \in {} |-> k]

\* HashMap::insert: the key is added, or its value replaced
MapInsert(m, k, v) == [x \in DOMAIN m \cup {k} |-> IF x = k THEN v ELSE m[x]]

\* HashMap::remove: nothing happens when the key is absent
MapRemove(m, k) == [x \in DOMAIN m \ {k} |-> m[x]]

\* Iterator::position: the index of the first element equal to x, 0 for None
Position(s, x) ==
  IF \E i \in 1 .. Len(s) : s[i] = x
    THEN CHOOSE i \in 1 .. Len(s) : s[i] = x /\ \A j \in 1 .. (i - 1) : s[j] # x
    ELSE 0

\* Vec::swap_remove in place of Vec::remove: the last element fills the gap
VecSwapRemove(s, i) ==
  [j \in 1 .. (Len(s) - 1) |-> IF j = i THEN s[Len(s)] ELSE s[j]]

\* Vec::remove(idx): the element at idx is taken out, the rest keep their order
VecRemove(s, i) == [j \in 1 .. (Len(s) - 1) |-> IF j < i THEN s[j] ELSE s[j + 1]]

\* the for loop of delete_epic: remove every listed id from the stories map
RECURSIVE RemoveAll(_, _)
RemoveAll(m, ids) ==
  IF ids = << >> THEN m ELSE RemoveAll(MapRemove(m, Head(ids)), Tail(ids))

(***************************************************************************)
(* The storage backend (MockDB).                                           *)
(***************************************************************************)
EmptyDbState == [last_item_id |-> 0, epics |-> EmptyMap, stories |-> EmptyMap]

\* the keys of either map
Keys(state) == DOMAIN state.epics \cup DOMAIN state.stories

\* the outcome of a call: ok and id are the Result handed to the caller,
\* write tells whether self.database.write was reached, state is its argument
Ok(id, state)  == [ok |-> TRUE,  id |-> id, write |-> TRUE,  state |-> state]
Err(state)     == [ok |-> FALSE, id |-> 0,  write |-> FALSE, state |-> state]

(***************************************************************************)
(* JiraDatabase: every operation works on `state`, its private copy of     *)
(* what the backend's read returned.                                       *)
(***************************************************************************)
\* the largest key of either map, 0 when both are empty
MaxKey(state) ==
  IF Keys(state) = {} THEN 0
  ELSE CHOOSE k \in Keys(state) : \A x \in Keys(state) : x <= k

\* create_epic without `state.last_item_id = id`
create_epic_no_bump(state, epic) ==
  LET id == state.last_item_id + 1
  IN  Ok(id, [state EXCEPT !.epics = MapInsert(@, id, epic)])

\* create_epic numbering from the number of stored items
create_epic_counts_items(state, epic) ==
  LET id == Cardinality(Keys(state)) + 1
      s1 == [state EXCEPT !.last_item_id = id]
      s2 == [s1 EXCEPT !.epics = MapInsert(@, id, epic)]
  IN  Ok(id, s2)

create_epic(state, epic) ==
  LET id == state.last_item_id + 1
      s1 == [state EXCEPT !.last_item_id = id]
      s2 == [s1 EXCEPT !.epics = MapInsert(@, id, epic)]
  IN  Ok(id, s2)

\* delete_epic without the loop over the epic's stories
delete_epic_no_cascade(state, epic_id) ==
  IF epic_id \notin DOMAIN state.epics
    THEN Err(state)
    ELSE Ok(0, [state EXCEPT !.epics = MapRemove(@, epic_id)])

delete_epic(state, epic_id) ==
  IF epic_id \notin DOMAIN state.epics
    THEN Err(state)
    ELSE LET stories == state.epics[epic_id].stories
             s1 == [state EXCEPT !.stories = RemoveAll(@, stories)]
             s2 == [s1 EXCEPT !.epics = MapRemove(@, epic_id)]
         IN  Ok(0, s2)

\* update_epic_status through entry(epic_id).or_insert_with(..)
update_epic_status_upsert(state, epic_id, status) ==
  IF epic_id \notin DOMAIN state.epics
    THEN Ok(0, [state EXCEPT !.epics =
                  MapInsert(@, epic_id, [EpicNew("", "") EXCEPT !.status = status])])
    ELSE Ok(0, [state EXCEPT !.epics[epic_id].status = status])

\* update_epic_status that also sets the status of the epic's stories
update_epic_status_cascade(state, epic_id, status) ==
  IF epic_id \notin DOMAIN state.epics
    THEN Err(state)
    ELSE LET listed == {state.epics[epic_id].stories[i] :
                          i \in 1 .. Len(state.epics[epic_id].stories)}
             s1 == [state EXCEPT !.epics[epic_id].status = status]
         IN  Ok(0, [s1 EXCEPT !.stories =
                      [k \in DOMAIN @ |->
                         IF k \in listed THEN [@[k] EXCEPT !.status = status]
                         ELSE @[k]]])

update_epic_status(state, epic_id, status) ==
  IF epic_id \notin DOMAIN state.epics
    THEN Err(state)
    ELSE Ok(0, [state EXCEPT !.epics[epic_id].status = status])

\* create_story taking the first id above the largest stored key
create_story_next_free(state, story, epic_id) ==
  LET id == MaxKey(state) + 1
      s1 == [state EXCEPT !.last_item_id = id]
      s2 == [s1 EXCEPT !.stories = MapInsert(@, id, story)]
  IN  IF epic_id \notin DOMAIN s2.epics
        THEN Err(s2)
        ELSE Ok(id, [s2 EXCEPT !.epics[epic_id].stories = Append(@, id)])

\* create_story that writes the copy before it looks the epic up
create_story_writes_first(state, story, epic_id) ==
  LET id == state.last_item_id + 1
      s1 == [state EXCEPT !.last_item_id = id]
      s2 == [s1 EXCEPT !.stories = MapInsert(@, id, story)]
  IN  IF epic_id \notin DOMAIN s2.epics
        THEN [ok |-> FALSE, id |-> 0, write |-> TRUE, state |-> s2]
        ELSE Ok(id, [s2 EXCEPT !.epics[epic_id].stories = Append(@, id)])

\* create_story with stories.insert(0, id) in place of stories.push(id)
create_story_prepends(state, story, epic_id) ==
  LET id == state.last_item_id + 1
      s1 == [state EXCEPT !.last_item_id = id]
      s2 == [s1 EXCEPT !.stories = MapInsert(@, id, story)]
  IN  IF epic_id \notin DOMAIN s2.epics
        THEN Err(s2)
        ELSE Ok(id, [s2 EXCEPT !.epics[epic_id].stories = <<id>> \o @])

create_story(state, story, epic_id) ==
  LET id == state.last_item_id + 1
      s1 == [state EXCEPT !.last_item_id = id]
      s2 == [s1 EXCEPT !.stories = MapInsert(@, id, story)]
  IN  IF epic_id \notin DOMAIN s2.epics
        THEN Err(s2)
        ELSE Ok(id, [s2 EXCEPT !.epics[epic_id].stories = Append(@, id)])

\* delete_story that forgets epic.stories.remove(story_idx)
delete_story_keeps_link(state, epic_id, story_id) ==
  IF epic_id \notin DOMAIN state.epics
    THEN Err(state)
    ELSE IF Position(state.epics[epic_id].stories, story_id) = 0
           THEN Err(state)
           ELSE Ok(0, [state EXCEPT !.stories = MapRemove(@, story_id)])

\* delete_story that forgets state.stories.remove(&story_id)
delete_story_keeps_story(state, epic_id, story_id) ==
  IF epic_id \notin DOMAIN state.epics
    THEN Err(state)
    ELSE LET story_idx == Position(state.epics[epic_id].stories, story_id)
         IN  IF story_idx = 0
               THEN Err(state)
               ELSE Ok(0, [state EXCEPT !.epics[epic_id].stories =
                                          VecRemove(@, story_idx)])

\* delete_story that looks the story up in the stories map, not in the epic
delete_story_any_epic(state, epic_id, story_id) ==
  IF epic_id \notin DOMAIN state.epics
    THEN Err(state)
    ELSE IF story_id \notin DOMAIN state.stories
           THEN Err(state)
           ELSE LET s1 == [state EXCEPT !.epics[epic_id].stories =
                             SelectSeq(@, LAMBDA x : x # story_id)]
                    s2 == [s1 EXCEPT !.stories = MapRemove(@, story_id)]
                IN  Ok(0, s2)

delete_story(state, epic_id, story_id) ==
  IF epic_id \notin DOMAIN state.epics
    THEN Err(state)
    ELSE LET story_idx == Position(state.epics[epic_id].stories, story_id)
         IN  IF story_idx = 0
               THEN Err(state)
               ELSE LET s1 == [state EXCEPT !.epics[epic_id].stories =
                                               VecRemove(@, story_idx)]
                        s2 == [s1 EXCEPT !.stories = MapRemove(@, story_id)]
                    IN  Ok(0, s2)

update_story_status(state, story_id, status) ==
  IF story_id \notin DOMAIN state.stories
    THEN Err(state)
    ELSE Ok(0, [state EXCEPT !.stories[story_id].status = status])

(***************************************************************************)
(* The calls as steps: read, run the operation on the copy, and store the  *)
(* copy only when the operation reached its write.                         *)
(***************************************************************************)
NoCall ==
  [op |-> "none", epic_id |-> 0, story_id |-> 0, status |-> "none",
   name |-> "", description |-> "", ok |-> FALSE, id |-> 0]

Call(op, epic_id, story_id, status, text, r) ==
  [op |-> op, epic_id |-> epic_id, story_id |-> story_id, status |-> status,
   name |-> text[1], description |-> text[2], ok |-> r.ok, id |-> r.id]

NoText == <<"", "">>

\* the ids a caller may pass: every id the model can allocate, so that at
\* any time some of them are epics, some stories, some deleted, some unused
Ids(max) == 1 .. max

\* the creation record of the stories that are still stored
Surviving(own, state) ==
  [s \in DOMAIN own \cap DOMAIN state.stories |-> own[s]]

\* Database::write(&state), reached only when no `?` returned early
Commit(r, max) ==
  /\ r.write => r.state.last_item_id <= max
  /\ db' = IF r.write THEN r.state ELSE db
  /\ pre' = db
  /\ UNCHANGED <<storeVars, navVars, fnVars>>

\* the parts of the program a specification leaves out stay as they are here
None == "none"

StoreIdle ==
  file = None /\ heap = None /\ cell = None /\ got = None /\ sent = None
NavIdle == stack = << >> /\ pc = None /\ action = None /\ told = None
FnIdle == arg = None /\ res = None

RepoInit ==
  /\ db = EmptyDbState
  /\ pre = EmptyDbState
  /\ last = NoCall
  /\ returned = << >>
  /\ removed = {}
  /\ owner = EmptyMap

Init == RepoInit /\ StoreIdle /\ NavIdle /\ FnIdle

CreateEpic(texts, max) ==
  /\ last = NoCall
  /\ \E text \in texts :
       LET r == create_epic(db, EpicNew(text[1], text[2])) IN
         /\ Commit(r, max)
         /\ last' = Call("create_epic", 0, 0, "none", text, r)
         /\ returned' = IF r.ok THEN Append(returned, r.id) ELSE returned
         /\ UNCHANGED <<removed, owner>>

CreateStory(texts, max) ==
  /\ last = NoCall
  /\ \E text \in texts, epic_id \in Ids(max) :
       LET r == create_story(db, StoryNew(text[1], text[2]), epic_id) IN
         /\ Commit(r, max)
         /\ last' = Call("create_story", epic_id, 0, "none", text, r)
         /\ returned' = IF r.ok THEN Append(returned, r.id) ELSE returned
         /\ owner' = IF r.ok THEN MapInsert(owner, r.id, epic_id) ELSE owner
         /\ UNCHANGED removed

DeleteEpic(max) ==
  /\ last = NoCall
  /\ \E epic_id \in Ids(max) :
       LET r == delete_epic(db, epic_id) IN
         /\ Commit(r, max)
         /\ last' = Call("delete_epic", epic_id, 0, "none", NoText, r)
         /\ removed' = removed \cup (Keys(db) \ Keys(db'))
         /\ owner' = Surviving(owner, db')
         /\ UNCHANGED returned

DeleteStory(max) ==
  /\ last = NoCall
  /\ \E epic_id \in Ids(max), story_id \in Ids(max) :
       LET r == delete_story(db, epic_id, story_id) IN
         /\ Commit(r, max)
         /\ last' = Call("delete_story", epic_id, story_id, "none", NoText, r)
         /\ removed' = removed \cup (Keys(db) \ Keys(db'))
         /\ owner' = Surviving(owner, db')
         /\ UNCHANGED returned

UpdateEpicStatus(max) ==
  /\ last = NoCall
  /\ \E epic_id \in Ids(max), status \in Status :
       LET r == update_epic_status(db, epic_id, status) IN
         /\ Commit(r, max)
         /\ last' = Call("update_epic_status", epic_id, 0, status, NoText, r)
         /\ UNCHANGED <<returned, removed, owner>>

UpdateStoryStatus(max) ==
  /\ last = NoCall
  /\ \E story_id \in Ids(max), status \in Status :
       LET r == update_story_status(db, story_id, status) IN
         /\ Commit(r, max)
         /\ last' = Call("update_story_status", 0, story_id, status, NoText, r)
         /\ UNCHANGED <<returned, removed, owner>>

\* the caller takes the Result (and reports an Err) before the next call
Return ==
  /\ last # NoCall
  /\ last' = NoCall
  /\ pre' = db
  /\ UNCHANGED <<db, returned, removed, owner>>
  /\ UNCHANGED <<storeVars, navVars, fnVars>>

Next ==
  \/ CreateEpic(Texts, MaxId)
  \/ CreateStory(Texts, MaxId)
  \/ DeleteEpic(MaxId)
  \/ DeleteStory(MaxId)
  \/ UpdateEpicStatus(MaxId)
  \/ UpdateStoryStatus(MaxId)
  \/ Return

Spec == Init /\ [][Next]_vars

NextNames ==
  \/ CreateEpic(TwoTexts, MaxIdNames)
  \/ CreateStory(TwoTexts, MaxIdNames)
  \/ DeleteEpic(MaxIdNames)
  \/ DeleteStory(MaxIdNames)
  \/ UpdateEpicStatus(MaxIdNames)
  \/ UpdateStoryStatus(MaxIdNames)
  \/ Return

SpecNames == Init /\ [][NextNames]_vars

(***************************************************************************)
(* The storage backends.  JsonFileDb keeps the DbState as JSON text in a    *)
(* file; MockDB keeps a DbState object of its own.                          *)
(***************************************************************************)
\* fs::write hands the text to the file in at most MaxChunks pieces
MaxChunks == 2

Quote == "\""
Backslash == "\\"

\* serde_json writes a string with its quotes and backslashes escaped
RECURSIVE Escape(_)
Escape(str) ==
  IF str = << >> THEN << >>
  ELSE (IF Head(str) \in {Quote, Backslash}
          THEN <<Backslash, Head(str)>> ELSE <<Head(str)>>) \o Escape(Tail(str))

\* and reads it back dropping the escaping backslashes
RECURSIVE Unescape(_)
Unescape(txt) ==
  IF txt = << >> THEN << >>
  ELSE IF Head(txt) = Backslash /\ Len(txt) >= 2
         THEN <<txt[2]>> \o Unescape(Tail(Tail(txt)))
         ELSE <<Head(txt)>> \o Unescape(Tail(txt))

\* a u32 as JSON text: its decimal digits
RECURSIVE Digits(_)
Digits(n) == IF n < 10 THEN <<n>> ELSE Append(Digits(n \div 10), n % 10)

\* the number a sequence of decimal digits stands for
RECURSIVE Number(_)
Number(d) ==
  IF Len(d) = 1 THEN d[1]
  ELSE 10 * Number(SubSeq(d, 1, Len(d) - 1)) + d[Len(d)]

\* the text of a Status in the file
StatusName(status) ==
  CASE status = "Open" -> "OPEN"
    [] status = "InProgress" -> "IN_PROGRESS"
    [] status = "Resolved" -> "RESOLVED"
    [] status = "Closed" -> "CLOSED"

StatusNames == {StatusName(st) : st \in Status}

StatusNamed(name) == CHOOSE st \in Status : StatusName(st) = name

\* serde_json::to_vec(state): a JSON object whose map keys are stringified ids
StoryToJson(story) ==
  [name |-> Escape(story.name), description |-> Escape(story.description),
   status |-> StatusName(story.status)]

EpicToJson(epic) ==
  [name |-> Escape(epic.name), description |-> Escape(epic.description),
   status |-> StatusName(epic.status),
   stories |-> [i \in 1 .. Len(epic.stories) |-> Digits(epic.stories[i])]]

ToJson(state) ==
  [last_item_id |-> Digits(state.last_item_id),
   epics |-> [k \in {Digits(id) : id \in DOMAIN state.epics} |->
                EpicToJson(state.epics[Number(k)])],
   stories |-> [k \in {Digits(id) : id \in DOMAIN state.stories} |->
                  StoryToJson(state.stories[Number(k)])]]

\* serde_json::from_str(&db): Err for a status outside the enumeration
StoryFromJson(j) ==
  [name |-> Unescape(j.name), description |-> Unescape(j.description),
   status |-> StatusNamed(j.status)]

EpicFromJson(j) ==
  [name |-> Unescape(j.name), description |-> Unescape(j.description),
   status |-> StatusNamed(j.status),
   stories |-> [i \in 1 .. Len(j.stories) |-> Number(j.stories[i])]]

ReadOk(state) == [ok |-> TRUE, state |-> state]
ReadErr == [ok |-> FALSE, state |-> None]

FromJson(doc) ==
  IF \/ \E k \in DOMAIN doc.epics : doc.epics[k].status \notin StatusNames
     \/ \E k \in DOMAIN doc.stories : doc.stories[k].status \notin StatusNames
    THEN ReadErr
    ELSE ReadOk(
      [last_item_id |-> Number(doc.last_item_id),
       epics |-> [id \in {Number(k) : k \in DOMAIN doc.epics} |->
                    EpicFromJson(doc.epics[Digits(id)])],
       stories |-> [id \in {Number(k) : k \in DOMAIN doc.stories} |->
                      StoryFromJson(doc.stories[Digits(id)])]])

\* the file: the JSON text `doc`, of which the first `len` of MaxChunks pieces
\* are on disk; `state` tells whether a write is under way, failed or returned
FileHolding(state) == [doc |-> ToJson(state), len |-> MaxChunks, state |-> "written"]

\* JsonFileDb::read: a text that stops early does not parse
JsonFileDb_read(f) ==
  IF f.len < MaxChunks THEN ReadErr ELSE FromJson(f.doc)

\* MockDB::write that keeps the reference it was given
MockDB_write_shares(objects, ref) ==
  [heap |-> objects, cell |-> "caller"]

\* MockDB::write: *last_written_state.borrow_mut() = db_state.clone()
MockDB_write(objects, ref) ==
  [heap |-> [objects EXCEPT ![ref] = objects.caller], cell |-> ref]

\* MockDB::read: a clone of what last_written_state holds
MockDB_read(objects, ref) == ReadOk(objects[ref])

\* the DbStates handed to the backends: the states of write_success and
\* of read_parse_success, and others the repository would not produce
SampleTexts == { << >>, <<"a">>, <<Quote, "a">>, <<"a", Backslash>> }

SampleEpics ==
  {[name |-> c[1], description |-> <<"a">>, status |-> c[2], stories |-> c[3]] :
     c \in { << << >>, "Open", << >> >>,
             << <<"a">>, "InProgress", <<4>> >>,
             << <<Quote, "a">>, "InProgress", <<12, 4>> >>,
             << <<"a", Backslash>>, "Resolved", <<4>> >>,
             << <<"a">>, "Closed", << >> >> }}

SampleStories ==
  {[name |-> <<"a">>, description |-> << >>, status |-> "Open"],
   [name |-> << >>, description |-> <<Backslash, Quote>>, status |-> "Closed"]}

SampleStates ==
  {[last_item_id |-> n, epics |-> em, stories |-> sm] :
     n \in {0, 3, 12},
     em \in {EmptyMap} \cup {MapInsert(EmptyMap, 3, e) : e \in SampleEpics}
            \cup {MapInsert(MapInsert(EmptyMap, 3, e), 10, EpicNew(<<"a">>, << >>)) :
                    e \in {x \in SampleEpics : Len(x.stories) = 2}},
     sm \in {EmptyMap} \cup {MapInsert(EmptyMap, 4, t) : t \in SampleStories}}

\* what the caller may do to its own DbState after a write
CallerChanges(state) ==
  {[state EXCEPT !.last_item_id = 7], [state EXCEPT !.epics = EmptyMap]}

NoRead == [done |-> FALSE, ok |-> FALSE, state |-> None]
Read(r) == [done |-> TRUE, ok |-> r.ok, state |-> r.state]

StoreFrame == UNCHANGED <<repoVars, navVars, fnVars>>

InitStore ==
  /\ RepoInit /\ NavIdle /\ FnIdle
  /\ \E state \in SampleStates :
       heap = [caller |-> state, backend |-> EmptyDbState]
  /\ cell = "backend"
  /\ file = FileHolding(EmptyDbState)
  /\ got = [file |-> NoRead, mock |-> NoRead]
  /\ sent = [file |-> EmptyDbState, old |-> EmptyDbState, mock |-> EmptyDbState]

\* fs::write, first half: File::create truncates the file
FileWriteBegin ==
  /\ file.state # "writing"
  /\ file' = [doc |-> ToJson(heap.caller), len |-> 0, state |-> "writing"]
  /\ sent' = [sent EXCEPT !.file = heap.caller,
                          !.old = IF file.state = "written" THEN sent.file ELSE @]
  /\ got' = [got EXCEPT !.file = NoRead]
  /\ UNCHANGED <<heap, cell>>
  /\ StoreFrame

\* fs::write, second half: write_all hands over the next piece of the text
FileWriteChunk ==
  /\ file.state = "writing"
  /\ file' = [file EXCEPT !.len = @ + 1,
                          !.state = IF file.len + 1 = MaxChunks
                                      THEN "written" ELSE "writing"]
  /\ UNCHANGED <<heap, cell, got, sent>>
  /\ StoreFrame

\* write_all fails (the disk is full, the process is stopped): Err(IoError)
FileWriteFail ==
  /\ file.state = "writing"
  /\ file' = [file EXCEPT !.state = "failed"]
  /\ UNCHANGED <<heap, cell, got, sent>>
  /\ StoreFrame

FileRead ==
  /\ file.state # "writing"
  /\ got' = [got EXCEPT !.file = Read(JsonFileDb_read(file))]
  /\ UNCHANGED <<file, heap, cell, sent>>
  /\ StoreFrame

MockWrite ==
  /\ LET w == MockDB_write(heap, "backend") IN
       heap' = w.heap /\ cell' = w.cell
  /\ sent' = [sent EXCEPT !.mock = heap.caller]
  /\ got' = [got EXCEPT !.mock = NoRead]
  /\ UNCHANGED file
  /\ StoreFrame

CallerChange ==
  /\ \E state \in CallerChanges(heap.caller) :
       /\ state # heap.caller
       /\ heap' = [heap EXCEPT !.caller = state]
  /\ UNCHANGED <<file, cell, got, sent>>
  /\ StoreFrame

MockRead ==
  /\ got' = [got EXCEPT !.mock = Read(MockDB_read(heap, cell))]
  /\ UNCHANGED <<file, heap, cell, sent>>
  /\ StoreFrame

NextStore ==
  \/ FileWriteBegin
  \/ FileWriteChunk
  \/ FileWriteFail
  \/ FileRead
  \/ MockWrite
  \/ CallerChange
  \/ MockRead

SpecStore == InitStore /\ [][NextStore]_vars

(***************************************************************************)
(* The driving loop of main.rs over the Navigator's page stack, with the   *)
(* repository on the file-backed backend.  `db` is the DbState of the last *)
(* completed write, `last` the repository call of the current iteration.   *)
(***************************************************************************)
\* SpecNav: creates are offered while the id they allocate is at most MaxIdNav
MaxIdNav == 3

NavTexts == { << <<"n">>, <<"d">> >> }

\* the Some(status) that update_status_prompt hands to the Navigator
NavStatuses == {"Closed"}

HomePage == [kind |-> "HomePage", epic_id |-> 0, story_id |-> 0]
EpicDetail(epic_id) == [kind |-> "EpicDetail", epic_id |-> epic_id, story_id |-> 0]
StoryDetail(epic_id, story_id) ==
  [kind |-> "StoryDetail", epic_id |-> epic_id, story_id |-> story_id]

Action(kind, epic_id, story_id) ==
  [kind |-> kind, epic_id |-> epic_id, story_id |-> story_id]
NoAction == Action("none", 0, 0)

Navigations ==
  {"NavigateToEpicDetail", "NavigateToStoryDetail", "NavigateToPreviousPage", "Exit"}
Mutations ==
  {"CreateEpic", "CreateStory", "DeleteEpic", "DeleteStory",
   "UpdateEpicStatus", "UpdateStoryStatus"}
Creations == {"CreateEpic", "CreateStory"}

\* the Actions a page's handle_input can make of an input
PageActions(page) ==
  CASE page.kind = "HomePage" ->
         {Action("Exit", 0, 0), Action("CreateEpic", 0, 0)}
           \cup {Action("NavigateToEpicDetail", e, 0) : e \in Ids(MaxIdNav)}
    [] page.kind = "EpicDetail" ->
         {Action("NavigateToPreviousPage", 0, 0),
          Action("UpdateEpicStatus", page.epic_id, 0),
          Action("DeleteEpic", page.epic_id, 0),
          Action("CreateStory", page.epic_id, 0)}
           \cup {Action("NavigateToStoryDetail", page.epic_id, s) : s \in Ids(MaxIdNav)}
    [] page.kind = "StoryDetail" ->
         {Action("NavigateToPreviousPage", 0, 0),
          Action("UpdateStoryStatus", page.epic_id, page.story_id),
          Action("DeleteStory", page.epic_id, page.story_id)}

\* Result<Option<Action>>
InputOk(a) == [ok |-> TRUE, some |-> a # NoAction, action |-> a]
InputErr == [ok |-> FALSE, some |-> FALSE, action |-> NoAction]

\* JiraDatabase::read: expect() on the backend's Result
JiraDatabase_read(rd) ==
  IF rd.ok THEN [panic |-> FALSE, state |-> rd.state]
           ELSE [panic |-> TRUE, state |-> None]

\* Page::draw_page: reads the DbState and fails when the page's id is gone
draw_page(page, f) ==
  LET r == JiraDatabase_read(JsonFileDb_read(f)) IN
    IF r.panic THEN "panic"
    ELSE IF page.kind = "EpicDetail" /\ page.epic_id \notin DOMAIN r.state.epics
      THEN "error"
    ELSE IF page.kind = "StoryDetail" /\ page.story_id \notin DOMAIN r.state.stories
      THEN "error"
    ELSE "ok"

\* JsonFileDb::write: fs::write may be refused, stop part-way, or complete
JsonFileDb_write(f, state) ==
  {[ok |-> TRUE, file |-> FileHolding(state)], [ok |-> FALSE, file |-> f]}
    \cup {[ok |-> FALSE, file |-> [doc |-> ToJson(state), len |-> k, state |-> "failed"]] :
            k \in 0 .. (MaxChunks - 1)}

\* the JiraDatabase operation an Action asks for, on the DbState it read
Operation(a, state, text, status) ==
  CASE a.kind = "CreateEpic" -> create_epic(state, EpicNew(text[1], text[2]))
    [] a.kind = "CreateStory" ->
         create_story(state, StoryNew(text[1], text[2]), a.epic_id)
    [] a.kind = "DeleteEpic" -> delete_epic(state, a.epic_id)
    [] a.kind = "DeleteStory" -> delete_story(state, a.epic_id, a.story_id)
    [] a.kind = "UpdateEpicStatus" -> update_epic_status(state, a.epic_id, status)
    [] a.kind = "UpdateStoryStatus" -> update_story_status(state, a.story_id, status)

OpOf(kind) ==
  CASE kind = "CreateEpic" -> "create_epic"
    [] kind = "CreateStory" -> "create_story"
    [] kind = "DeleteEpic" -> "delete_epic"
    [] kind = "DeleteStory" -> "delete_story"
    [] kind = "UpdateEpicStatus" -> "update_epic_status"
    [] kind = "UpdateStoryStatus" -> "update_story_status"

\* Navigator::handle_action, the stack: push, pop, clear
Navigate(pages, a) ==
  CASE a.kind = "NavigateToEpicDetail" -> Append(pages, EpicDetail(a.epic_id))
    [] a.kind = "NavigateToStoryDetail" ->
         Append(pages, StoryDetail(a.epic_id, a.story_id))
    [] a.kind = "NavigateToPreviousPage" -> SubSeq(pages, 1, Len(pages) - 1)
    [] a.kind = "Exit" -> << >>

\* main after handle_input, with an Err ending the loop
AfterInput_leaves_on_error(action_r) ==
  IF action_r.ok /\ action_r.some THEN "handle"
  ELSE IF action_r.ok THEN "top" ELSE "exited"

\* main after handle_input: Ok(Some(action)) goes on to handle_action,
\* Ok(None) and Err(_) go round the loop
AfterInput(action_r) ==
  IF action_r.ok /\ action_r.some THEN "handle" ELSE "top"

NoTold ==
  [stack |-> << >>, reports |-> {}, input |-> "none", called |-> FALSE,
   kept |-> TRUE, read |-> "none"]

NavFrame == UNCHANGED <<returned, removed, owner, heap, cell, got, sent, fnVars>>

InitNav ==
  /\ RepoInit /\ FnIdle
  /\ heap = None /\ cell = None /\ got = None /\ sent = None
  /\ file = FileHolding(EmptyDbState)
  /\ stack = <<HomePage>>
  /\ pc = "top"
  /\ action = NoAction
  /\ told = NoTold

\* loop { match navigator.get_current_page() { Some(page) => ..., _ => break } }
LoopTop ==
  /\ pc = "top"
  /\ pc' = IF stack = << >> THEN "exited" ELSE "draw"
  /\ UNCHANGED <<db, pre, last, file, stack, action, told>>
  /\ NavFrame

\* page.draw_page(), an Err printed
DrawPage ==
  /\ pc = "draw"
  /\ LET drawn == draw_page(stack[Len(stack)], file) IN
       /\ pc' = IF drawn = "panic" THEN "panicked" ELSE "input"
       /\ told' = [NoTold EXCEPT !.stack = stack,
                                 !.reports = IF drawn = "error" THEN {"render"} ELSE {},
                                 !.read = IF drawn = "panic" THEN "failed" ELSE "ok"]
  /\ last' = NoCall
  /\ pre' = db
  /\ action' = NoAction
  /\ UNCHANGED <<db, file, stack>>
  /\ NavFrame

\* page.handle_input(get_input().trim()), an Err printed
HandleInput ==
  /\ pc = "input"
  /\ \E action_r \in {InputOk(a) : a \in PageActions(stack[Len(stack)])}
                       \cup {InputOk(NoAction), InputErr} :
       /\ action_r.action.kind \in Creations => db.last_item_id < MaxIdNav
       /\ action' = action_r.action
       /\ pc' = AfterInput(action_r)
       /\ told' = [told EXCEPT !.input = IF ~action_r.ok THEN "error"
                                         ELSE IF action_r.some THEN "action"
                                         ELSE "no_action",
                               !.reports = IF action_r.ok THEN @ ELSE @ \cup {"input"}]
  /\ UNCHANGED <<db, pre, last, file, stack>>
  /\ NavFrame

\* navigator.handle_action(action) for an Action that moves between pages
HandleNavigation ==
  /\ pc = "handle"
  /\ action.kind \in Navigations
  /\ stack' = Navigate(stack, action)
  /\ pc' = "top"
  /\ UNCHANGED <<db, pre, last, file, action, told>>
  /\ NavFrame

\* navigator.handle_action(action) for an Action that changes the DbState:
\* the prompt, the repository call when the prompt gave an answer, the pop
\* after a delete, and an Err printed
HandleMutation ==
  /\ pc = "handle"
  /\ action.kind \in Mutations
  /\ \E text \in NavTexts, status \in NavStatuses, answered \in BOOLEAN :
       IF ~answered /\ action.kind \notin Creations
         THEN UNCHANGED <<db, pre, last, file, stack, told>>
         ELSE LET rd == JsonFileDb_read(file)
                  r == IF rd.ok THEN Operation(action, rd.state, text, status)
                                ELSE Err(None)
              IN  \E w \in IF r.write THEN JsonFileDb_write(file, r.state)
                                      ELSE {[ok |-> TRUE, file |-> file]} :
                    LET out == IF w.ok THEN r ELSE Err(None) IN
                      /\ file' = w.file
                      /\ db' = IF r.write /\ w.ok THEN r.state ELSE db
                      /\ pre' = db
                      /\ last' = Call(OpOf(action.kind), action.epic_id, action.story_id,
                                      IF action.kind \in {"UpdateEpicStatus", "UpdateStoryStatus"}
                                        THEN status ELSE "none",
                                      IF action.kind \in Creations THEN text ELSE NoText, out)
                      /\ stack' = IF out.ok /\ action.kind \in {"DeleteEpic", "DeleteStory"}
                                    THEN SubSeq(stack, 1, Len(stack) - 1) ELSE stack
                      /\ told' = [told EXCEPT !.called = TRUE,
                                              !.kept = (w.file = file),
                                              !.read = IF rd.ok THEN "ok" ELSE "failed",
                                              !.reports = IF out.ok THEN @
                                                          ELSE @ \cup {"action"}]
  /\ pc' = "top"
  /\ UNCHANGED action
  /\ NavFrame

Running == pc \in {"top", "draw", "input", "handle"}

\* the database file becomes unreadable: removed, or its access rights taken
FileLost ==
  /\ Running
  /\ JsonFileDb_read(file).ok
  /\ file' = [file EXCEPT !.len = 0, !.state = "lost"]
  /\ UNCHANGED <<db, pre, last, stack, pc, action, told>>
  /\ NavFrame

\* the user puts the last complete database file back
FileRestored ==
  /\ Running
  /\ ~JsonFileDb_read(file).ok
  /\ file' = FileHolding(db)
  /\ UNCHANGED <<db, pre, last, stack, pc, action, told>>
  /\ NavFrame

NextNav ==
  \/ LoopTop
  \/ DrawPage
  \/ HandleInput
  \/ HandleNavigation
  \/ HandleMutation
  \/ FileLost
  \/ FileRestored

SpecNav == InitNav /\ [][NextNav]_vars

(***************************************************************************)
(* The pure helpers of the UI: get_column_string (ui/pages_helpers.rs) and *)
(* update_status_prompt (ui/prompts.rs).  A text is a sequence of chars.   *)
(***************************************************************************)
\* SpecColumn: texts of up to MaxTextLen chars, widths up to MaxWidth
MaxTextLen == 4
MaxWidth == 7

\* SpecPrompt: answers of up to MaxAnswerLen chars
MaxAnswerLen == 3

\* the texts of at most n chars over an alphabet
RECURSIVE TextsUpTo(_, _)
TextsUpTo(chars, n) ==
  IF n = 0 THEN { << >> }
  ELSE LET shorter == TextsUpTo(chars, n - 1) IN
         shorter \cup {Append(t, c) : t \in {x \in shorter : Len(x) = n - 1}, c \in chars}

\* a one-byte char and a two-byte char of UTF-8
ColumnChars == {"a", "é"}

\* char::len_utf8
Utf8Len(c) == IF c = "é" THEN 2 ELSE 1

\* str::len: the length in bytes
RECURSIVE StrLen(_)
StrLen(text) == IF text = << >> THEN 0 ELSE Utf8Len(Head(text)) + StrLen(Tail(text))

\* n times the char c
Repeat(c, n) == [i \in 1 .. n |-> c]

\* Ellipse::truncate_ellipse: counts and takes graphemes
truncate_ellipse(text, len) ==
  IF Len(text) <= len THEN text
  ELSE IF len = 0 THEN << >>
  ELSE SubSeq(text, 1, len) \o Repeat(".", 3)

get_column_string(text, width) ==
  LET len == StrLen(text) IN
    IF len = width THEN text
    ELSE IF len < width THEN text \o Repeat(" ", width - len)
    ELSE IF width = 0 THEN << >>
    ELSE IF width = 1 THEN Repeat(".", 1)
    ELSE IF width = 2 THEN Repeat(".", 2)
    ELSE IF width = 3 THEN Repeat(".", 3)
    ELSE truncate_ellipse(text, width - 3)

Pending == [done |-> FALSE, some |-> FALSE, value |-> None]
Done(value) == [done |-> TRUE, some |-> TRUE, value |-> value]
DoneNone == [done |-> TRUE, some |-> FALSE, value |-> None]

FnFrame == UNCHANGED <<repoVars, storeVars, navVars>>

InitColumn ==
  /\ RepoInit /\ StoreIdle /\ NavIdle
  /\ arg \in [text : TextsUpTo(ColumnChars, MaxTextLen), width : 0 .. MaxWidth]
  /\ res = Pending

GetColumnString ==
  /\ ~res.done
  /\ res' = Done(get_column_string(arg.text, arg.width))
  /\ UNCHANGED arg
  /\ FnFrame

NextColumnString == GetColumnString

SpecColumn == InitColumn /\ [][NextColumnString]_vars

\* the chars of an answer: digits, signs, a letter, a blank
AnswerChars == {"0", "1", "2", "3", "4", "5", "+", "-", "a", " "}

DigitChars == <<"0", "1", "2", "3", "4", "5", "6", "7", "8", "9">>

\* char::to_digit(10), 10 for None
ToDigit(c) == IF Position(DigitChars, c) = 0 THEN 10 ELSE Position(DigitChars, c) - 1

RECURSIVE Decimal(_)
Decimal(digits) ==
  IF digits = << >> THEN 0
  ELSE 10 * Decimal(SubSeq(digits, 1, Len(digits) - 1)) + ToDigit(digits[Len(digits)])

ParseErr == [ok |-> FALSE, value |-> 0]

\* str::parse::<u32>: an optional "+", then decimal digits only; an answer of
\* at most MaxAnswerLen chars stays far below the overflow at 2^32
parse_u32(src) ==
  LET digits == IF src # << >> /\ Head(src) = "+" THEN Tail(src) ELSE src IN
    IF digits = << >> THEN ParseErr
    ELSE IF \E i \in 1 .. Len(digits) : ToDigit(digits[i]) = 10 THEN ParseErr
    ELSE [ok |-> TRUE, value |-> Decimal(digits)]

\* update_status_prompt with the arms of 3 and 4 exchanged
update_status_prompt_swapped(status) ==
  LET parsed == parse_u32(status) IN
    IF parsed.ok
      THEN CASE parsed.value = 1 -> Done("Open")
             [] parsed.value = 2 -> Done("InProgress")
             [] parsed.value = 3 -> Done("Closed")
             [] parsed.value = 4 -> Done("Resolved")
             [] OTHER -> DoneNone
      ELSE DoneNone

\* update_status_prompt, from the String that get_input returned
update_status_prompt(status) ==
  LET parsed == parse_u32(status) IN
    IF parsed.ok
      THEN CASE parsed.value = 1 -> Done("Open")
             [] parsed.value = 2 -> Done("InProgress")
             [] parsed.value = 3 -> Done("Resolved")
             [] parsed.value = 4 -> Done("Closed")
             [] OTHER -> DoneNone
      ELSE DoneNone

InitPrompt ==
  /\ RepoInit /\ StoreIdle /\ NavIdle
  /\ arg \in TextsUpTo(AnswerChars, MaxAnswerLen)
  /\ res = Pending

UpdateStatusPrompt ==
  /\ ~res.done
  /\ res' = update_status_prompt(arg)
  /\ UNCHANGED arg
  /\ FnFrame

NextPrompt == UpdateStatusPrompt

SpecPrompt == InitPrompt /\ [][NextPrompt]_vars

(***************************************************************************)
(* Properties.  In a state where `last` holds a call, `pre` is the stored  *)
(* DbState the call read and `db` the stored DbState it left.              *)
(***************************************************************************)
\* the ids listed in a stories sequence
Listed(stories) == {stories[i] : i \in 1 .. Len(stories)}

\* the largest id of a sequence of returned ids, 0 when none was returned
Highest(ids) ==
  IF ids = << >> THEN 0
  ELSE CHOOSE k \in Listed(ids) : \A x \in Listed(ids) : x <= k

Creates == {"create_epic", "create_story"}
Deletes == {"delete_epic", "delete_story"}

\* C1: every id returned by a successful create_epic/create_story is larger
\* than all ids returned before it, and after every call last_item_id is the
\* highest id returned so far (0 when none).
C1_IdsStrictlyIncrease ==
  /\ \A i, j \in 1 .. Len(returned) : i < j => returned[i] < returned[j]
  /\ db.last_item_id = Highest(returned)

\* a create has just returned id 4, the fourth id, after a delete
C1_Witness ==
  /\ last.op \in Creates /\ last.ok /\ last.id = 4
  /\ removed # {}
  /\ Len(returned) = 4

\* C2: in every stored state every id listed in an epic's stories sequence
\* is a key of the stories map.
C2_ListedStoriesExist ==
  \A e \in DOMAIN db.epics : Listed(db.epics[e].stories) \subseteq DOMAIN db.stories

\* delete_story has just taken one story out of an epic that still lists
\* another one
C2_Witness ==
  /\ last.op = "delete_story" /\ last.ok
  /\ db.epics[last.epic_id].stories # << >>
  /\ Listed(db.epics[last.epic_id].stories) \subseteq DOMAIN db.stories

\* C3: delete_epic(e) on an existing epic succeeds, removes key e from epics
\* and every id of e.stories from stories, and leaves every other epic and
\* every story listed under another epic as it was; on an absent e it fails
\* and the stored state is unchanged.
C3_DeleteEpic ==
  last.op = "delete_epic" =>
    LET e == last.epic_id IN
      IF e \in DOMAIN pre.epics
        THEN /\ last.ok
             /\ e \notin DOMAIN db.epics
             /\ \A s \in Listed(pre.epics[e].stories) : s \notin DOMAIN db.stories
             /\ \A o \in DOMAIN pre.epics \ {e} :
                  /\ o \in DOMAIN db.epics
                  /\ db.epics[o] = pre.epics[o]
                  /\ \A s \in Listed(pre.epics[o].stories) :
                       /\ s \in DOMAIN db.stories
                       /\ db.stories[s] = pre.stories[s]
        ELSE ~last.ok /\ db = pre

\* delete_epic has just removed an epic with a story while another epic
\* with a story of its own is stored
C3_Witness ==
  /\ last.op = "delete_epic" /\ last.ok
  /\ pre.epics[last.epic_id].stories # << >>
  /\ \E o \in DOMAIN db.epics : db.epics[o].stories # << >>

\* C4: create_story with an epic_id that is no key of epics returns an error
\* and leaves the stored state unchanged, and every successful create returns
\* the stored last_item_id + 1 (so a failed create_story costs no id).
C4_CreateStoryUnknownEpic ==
  /\ (last.op = "create_story" /\ last.epic_id \notin DOMAIN pre.epics) =>
       (~last.ok /\ db = pre)
  /\ (last.op \in Creates /\ last.ok) => last.id = pre.last_item_id + 1

\* create_story has just failed on an id that is a story, not an epic
C4_Witness ==
  /\ last.op = "create_story" /\ ~last.ok
  /\ last.epic_id \in DOMAIN pre.stories

\* C5: delete_story(e, s) fails when e is no key of epics or s is not listed
\* in e.stories, also when s is a story of another epic, and a failing
\* delete_story leaves the stored state unchanged.
C5_DeleteStoryNotLinked ==
  last.op = "delete_story" =>
    /\ (\/ last.epic_id \notin DOMAIN pre.epics
        \/ last.story_id \notin Listed(pre.epics[last.epic_id].stories))
         => ~last.ok
    /\ ~last.ok => db = pre

\* delete_story has just failed for a story that is listed under another epic
C5_Witness ==
  /\ last.op = "delete_story" /\ ~last.ok
  /\ last.epic_id \in DOMAIN pre.epics
  /\ \E o \in DOMAIN pre.epics \ {last.epic_id} :
       last.story_id \in Listed(pre.epics[o].stories)

\* C6: a successful delete_story(e, s) leaves e.stories without s and with
\* its other ids in their old order, leaves stories without key s, and changes
\* no other epic and no other story; no delete_story and no delete_epic call,
\* successful or not, changes last_item_id.
C6_DeleteStory ==
  /\ (last.op = "delete_story" /\ last.ok) =>
       LET e == last.epic_id
           s == last.story_id
       IN  /\ s \notin Listed(db.epics[e].stories)
           /\ s \notin DOMAIN db.stories
           /\ db.epics[e].stories = SelectSeq(pre.epics[e].stories, LAMBDA x : x # s)
           /\ db.epics[e] = [pre.epics[e] EXCEPT !.stories = db.epics[e].stories]
           /\ DOMAIN db.epics = DOMAIN pre.epics
           /\ \A o \in DOMAIN pre.epics \ {e} : db.epics[o] = pre.epics[o]
           /\ DOMAIN db.stories = DOMAIN pre.stories \ {s}
           /\ \A t \in DOMAIN db.stories : db.stories[t] = pre.stories[t]
  /\ last.op \in Deletes => db.last_item_id = pre.last_item_id

\* delete_story has just removed the first of three stories of an epic
C6_Witness ==
  /\ last.op = "delete_story" /\ last.ok
  /\ Len(pre.epics[last.epic_id].stories) = 3
  /\ pre.epics[last.epic_id].stories[1] = last.story_id
  /\ Len(db.epics[last.epic_id].stories) = 2

\* C7: update_epic_status with an id that is no key of epics, and
\* update_story_status with an id that is no key of stories, return an error
\* and leave the stored state unchanged, also when the id is a key of the
\* other map.
C7_UpdateUnknownId ==
  /\ (last.op = "update_epic_status" /\ last.epic_id \notin DOMAIN pre.epics) =>
       (~last.ok /\ db = pre)
  /\ (last.op = "update_story_status" /\ last.story_id \notin DOMAIN pre.stories) =>
       (~last.ok /\ db = pre)

\* update_epic_status has just failed on the id of a stored story
C7_Witness ==
  /\ last.op = "update_epic_status" /\ ~last.ok
  /\ last.epic_id \in DOMAIN pre.stories
  /\ last.status # pre.stories[last.epic_id].status

\* C8: update_epic_status on a stored epic, and update_story_status on a
\* stored story, succeed whatever the old and the new status are and change
\* the status field of that one item only: last_item_id, the keys of both
\* maps, every other epic and story, the item's name and description and an
\* epic's stories sequence stay as they were.
C8_UpdateStatusOnly ==
  /\ (last.op = "update_epic_status" /\ last.epic_id \in DOMAIN pre.epics) =>
       LET e == last.epic_id IN
         /\ last.ok
         /\ db.last_item_id = pre.last_item_id
         /\ DOMAIN db.epics = DOMAIN pre.epics
         /\ db.epics[e].status = last.status
         /\ db.epics[e].name = pre.epics[e].name
         /\ db.epics[e].description = pre.epics[e].description
         /\ db.epics[e].stories = pre.epics[e].stories
         /\ \A o \in DOMAIN pre.epics \ {e} : db.epics[o] = pre.epics[o]
         /\ db.stories = pre.stories
  /\ (last.op = "update_story_status" /\ last.story_id \in DOMAIN pre.stories) =>
       LET s == last.story_id IN
         /\ last.ok
         /\ db.last_item_id = pre.last_item_id
         /\ DOMAIN db.stories = DOMAIN pre.stories
         /\ db.stories[s].status = last.status
         /\ db.stories[s].name = pre.stories[s].name
         /\ db.stories[s].description = pre.stories[s].description
         /\ \A t \in DOMAIN pre.stories \ {s} : db.stories[t] = pre.stories[t]
         /\ db.epics = pre.epics

\* update_epic_status has just moved an epic from Closed back to Open while
\* one of its stories is Resolved
C8_Witness ==
  /\ last.op = "update_epic_status" /\ last.ok
  /\ pre.epics[last.epic_id].status = "Closed"
  /\ last.status = "Open"
  /\ \E s \in Listed(db.epics[last.epic_id].stories) :
       db.stories[s].status = "Resolved"

\* C9: in every stored state no id is a key of both maps and every key lies
\* in 1 .. last_item_id, and no create returns an id that a delete_epic or
\* delete_story had removed.
C9_IdsNeverReused ==
  /\ DOMAIN db.epics \cap DOMAIN db.stories = {}
  /\ Keys(db) \subseteq 1 .. db.last_item_id
  /\ (last.op \in Creates /\ last.ok) => last.id \notin removed

\* a create has just succeeded after the item with the highest id had been
\* deleted
C9_Witness ==
  /\ last.op \in Creates /\ last.ok
  /\ pre.last_item_id \in removed

\* C10: create_epic succeeds, returns the stored last_item_id + 1, stores that
\* id as last_item_id and the epic as constructed (name and description as
\* given, status Open, no stories) under it, and changes no stored epic or
\* story.
C10_CreateEpic ==
  last.op = "create_epic" =>
    /\ last.ok
    /\ last.id = pre.last_item_id + 1
    /\ db.last_item_id = last.id
    /\ DOMAIN db.epics = DOMAIN pre.epics \cup {last.id}
    /\ db.epics[last.id] =
         [name |-> last.name, description |-> last.description,
          status |-> "Open", stories |-> << >>]
    /\ \A o \in DOMAIN pre.epics : db.epics[o] = pre.epics[o]
    /\ db.stories = pre.stories

\* create_epic has just stored a second epic, under another name than the
\* first, beside an epic that has a story
C10_Witness ==
  /\ last.op = "create_epic" /\ last.ok
  /\ \E o \in DOMAIN pre.epics :
       /\ pre.epics[o].stories # << >>
       /\ pre.epics[o].name # last.name

C18_OneEpicPerStory ==
  \A s \in DOMAIN db.stories :
    \E e \in DOMAIN db.epics :
      /\ \E i \in 1 .. Len(db.epics[e].stories) :
           /\ db.epics[e].stories[i] = s
           /\ \A j \in 1 .. Len(db.epics[e].stories) :
                db.epics[e].stories[j] = s => j = i
      /\ \A o \in DOMAIN db.epics \ {e} :
           \A j \in 1 .. Len(db.epics[o].stories) : db.epics[o].stories[j] # s

\* create_story has just put a story under the second of two epics
C18_Witness ==
  /\ last.op = "create_story" /\ last.ok /\ last.epic_id = 2
  /\ DOMAIN db.epics = {1, 2}
  /\ db.epics[1].stories = << >> /\ db.epics[2].stories = <<last.id>>

\* C11: a read that follows a write returns a DbState equal to the one that
\* was written, from the file (once the write has returned Ok) and from
\* MockDB, whatever the caller has done to its own DbState since the write.
C11_WriteThenRead ==
  /\ (got.file.done /\ file.state = "written") =>
       (got.file.ok /\ got.file.state = sent.file)
  /\ got.mock.done => (got.mock.ok /\ got.mock.state = sent.mock)

\* both backends have just returned the state written to them, with two
\* epics, a two-digit key and an escaped name, and the caller has since
\* emptied its own epics
C11_Witness ==
  /\ got.file.done /\ got.file.ok /\ file.state = "written"
  /\ got.mock.done /\ got.mock.ok
  /\ sent.file = sent.mock
  /\ DOMAIN sent.mock.epics = {3, 10}
  /\ sent.mock.epics[3].name = <<Quote, "a">>
  /\ sent.mock.epics[3].stories = <<12, 4>>
  /\ sent.mock.stories # EmptyMap
  /\ heap.caller.epics = EmptyMap

\* C13: at every moment the database file holds, complete, either the DbState
\* it held before the last write began or the DbState of that write.
C13_WriteAllOrNothing ==
  /\ JsonFileDb_read(file).ok
  /\ JsonFileDb_read(file).state \in {sent.old, sent.file}

\* C12: a failed read of the backend comes back from every repository
\* operation as an Err: no read aborts the process, and a mutating call
\* whose read failed returns Err without writing, is reported, and the loop
\* goes on.
C12_ReadFailureIsAnError ==
  /\ pc # "panicked"
  /\ (told.called /\ told.read = "failed") =>
       (~last.ok /\ told.kept /\ "action" \in told.reports /\ Running)

\* C14: after an Action whose repository call failed, the error has been
\* reported, the stack is the one the iteration began with, the database
\* file is as the call found it, and the loop goes on with the same page.
C14_FailedActionChangesNothing ==
  (told.called /\ ~last.ok) =>
    /\ "action" \in told.reports
    /\ stack = told.stack /\ stack # << >>
    /\ told.kept
    /\ pc \in {"top", "draw"}

\* C15: the loop starts on a stack of one HomePage, runs while the stack
\* holds a page and has ended only by finding the stack empty; no error
\* ends it.
C15_LoopRunsUntilStackEmpty ==
  /\ told = NoTold => stack = <<HomePage>>
  /\ pc \in {"draw", "input", "handle"} => stack # << >>
  /\ pc = "exited" => stack = << >>
  /\ pc \in {"top", "draw", "input", "handle", "exited"}

\* C19: when handle_input returned Ok(None) or Err, the iteration makes no
\* repository call and leaves the stack as it was, an Err is reported, and
\* the loop goes round to draw the same page.
C19_NoActionChangesNothing ==
  told.input \in {"no_action", "error"} =>
    /\ pc \in {"top", "draw"}
    /\ ~told.called /\ last = NoCall
    /\ stack = told.stack /\ stack # << >>
    /\ ("input" \in told.reports) = (told.input = "error")

\* an unrecognized input on a StoryDetail page over a stored story, and the
\* loop about to draw that page again
C19_Witness ==
  /\ told.input = "no_action" /\ pc = "draw"
  /\ Len(stack) = 3 /\ stack[3].story_id \in DOMAIN db.stories
  /\ stack = told.stack

\* C16: get_column_string returns exactly `width` chars: the text and then
\* spaces when the text is shorter, the text when it is as long, and when it
\* is longer as many dots as the width for widths up to 3 and otherwise the
\* first width - 3 chars followed by three dots.
C16_ColumnHasWidth ==
  res.done =>
    LET text == arg.text
        width == arg.width
        out == res.value
    IN  /\ Len(out) = width
        /\ Len(text) < width => out = text \o Repeat(" ", width - Len(text))
        /\ Len(text) = width => out = text
        /\ (Len(text) > width /\ width <= 3) => out = Repeat(".", width)
        /\ (Len(text) > width /\ width >= 4) =>
             out = SubSeq(text, 1, width - 3) \o Repeat(".", 3)

\* the answer, its "+" taken off, is zeros and then the one digit d
Denotes(answer, d) ==
  LET digits == IF answer # << >> /\ Head(answer) = "+" THEN Tail(answer) ELSE answer IN
    /\ digits # << >>
    /\ digits[Len(digits)] = DigitChars[d + 1]
    /\ \A i \in 1 .. (Len(digits) - 1) : digits[i] = "0"

StatusOrder == <<"Open", "InProgress", "Resolved", "Closed">>

\* C20, as claimed: the answers "1", "2", "3", "4" give the four statuses
\* and every other answer gives no selection.
C20_OnlyTheFourTokens ==
  res.done =>
    /\ \A d \in 1 .. 4 : arg = <<DigitChars[d + 1]>> => res = Done(StatusOrder[d])
    /\ arg \notin {<<DigitChars[d + 1]>> : d \in 1 .. 4} => ~res.some

\* C20, amended: an answer that reads as the decimal number 1, 2, 3 or 4,
\* with or without a leading "+" and leading zeros, gives Open, InProgress,
\* Resolved or Closed; every other answer gives no selection.
C20_StatusByNumber ==
  res.done =>
    /\ \A d \in 1 .. 4 : Denotes(arg, d) => res = Done(StatusOrder[d])
    /\ (~ \E d \in 1 .. 4 : Denotes(arg, d)) => ~res.some

\* the answer +03 has selected Resolved
C20_Witness == res.done /\ arg = <<"+", "0", "3">> /\ res = Done("Resolved")

====
